---- MODULE Spec2Model ----
(***************************************************************************)
(* Push-to-talk controller of the Local STT web client                     *)
(* (src/frontend/app.js).  The browser runs the handlers on one event      *)
(* loop: every action below is one handler, or the part of an async        *)
(* function between two awaits.  handleKeyDown, handleKeyUp and handleBlur  *)
(* are modelled as the listeners of keydown, keyup and blur that init()     *)
(* names for them; in this revision of init() the three addEventListener    *)
(* lines are commented out, so the properties about key events are          *)
(* properties of the handlers as written.                                  *)
(*                                                                         *)
(* Spec      the controller under every sequence of key, blur, settings,   *)
(*           microphone and WebSocket events.                              *)
(* SpecKeys  the same controller with the keyboard's physical state        *)
(*           tracked beside it (which keys are down, whether the window    *)
(*           has the focus), for the properties that speak of physical     *)
(*           chord-holds, over the time the WebSocket takes to connect:    *)
(*           its behaviours are the behaviours of Spec in which no         *)
(*           WebSocket event has happened yet.                             *)
(* SpecCodes the controller receiving the key events of the left and of    *)
(*           the right modifier keys, again before the WebSocket connects. *)
(* SpecStore the settings panel: the requests it sends and the responses   *)
(*           it handles.                                                   *)
(* SpecVocabulary  the vocabulary panel and the server's vocabulary store. *)
(*           The server is not part of the sources modelled here; its      *)
(*           store is modelled from its specification.                     *)
(* SpecReplacements  the replacements panel and the server's replacement   *)
(*           store, modelled in the same way.                              *)
(* SpecWav   audioBufferToWav applied to every decoded clip within the     *)
(*           bounds.                                                       *)
(* SpecObserver  the page as the observer of the CLI: the WebSocket, its   *)
(*           status and result messages, and the history refresh.          *)
(* SpecConnection  the WebSocket's life, the health checks and the         *)
(*           connection indicator.                                         *)
(* SpecPipeline  the server's pipeline for one clip after another: gate,   *)
(*           normalisation, provider selection, provider calls with the    *)
(*           one fallback retry, and replacement. The server is not part of the sources at hand; it is   *)
(*           modelled from its specification (sections 4.3, 4.4, 4.6).     *)
(* SpecControls  the settings controls, the status messages that lock     *)
(*           them, and the server's handling of the normalization PUT      *)
(*           (modelled from its specification).                            *)
(* SpecHistory  the history panel and the server's bounded history         *)
(*           (modelled from its specification).                            *)
(* SpecLog   consoleLogger: addLog, clear and copyLogs.                    *)
(***************************************************************************)
EXTENDS Integers, Sequences, FiniteSets

(* ------------------------------ bounds -------------------------------- *)
MaxAsync == 2        \* async operations (initAudio, flush wait, decode, PUT) in flight
MaxChunks == 1       \* chunks kept in state.audioChunks
MaxRequests == 2     \* requests of one panel awaiting their response
MaxSamples == 2      \* samples of a decoded clip
SampleDen == 40000   \* a sample is a multiple of 1 / SampleDen
HistoryCapacity == 2 \* entries the server's history keeps
MaxResults == 3      \* transcriptions the server adds to its history
MaxLogged == 3       \* console messages added in one run

(* ---------------------------- value sets ------------------------------ *)
Keys == {"ControlLeft", "ShiftLeft", "MetaLeft"}
\* event.code of the right-side modifier keys.
RightKeys == {"ControlRight", "ShiftRight", "MetaRight"}
Codes == Keys \cup RightKeys
Bindings == {"ctrl_only", "shift"}
StatusKinds == {"cancelled", "recording", "stopped"}
\* How initAudio ends: "ok", getUserMedia rejected ("denied"), or the stream
\* was obtained and setting up the AudioContext threw ("failed").
AudioOutcomes == {"ok", "denied", "failed"}
\* How a request to the server ends: a 2xx response ("ok"), a non-2xx response
\* with a JSON error body ("rejected"), or a rejected fetch or a body that is
\* not JSON ("failed").
ResponseKinds == {"ok", "rejected", "failed"}
\* A JavaScript boolean, for the settings that can become undefined.
JsBooleans == {"true", "false"}
\* Texts are sequences of characters.  What the user types into the
\* vocabulary input:
WordInputs == {<<>>, <<" ">>, <<"a">>, <<"A">>, <<" ", "a">>, <<"A", " ">>, <<"b">>}
\* The decoded clips: a sample is the numerator of a multiple of 1 / SampleDen:
\* 0, the smallest magnitude, a half, the endpoints of [-1, 1] and one and a
\* half; of the channels only channel 0 is ever read.
SampleRates == {8000, 16000, 44100, 48000}
Samples ==
    LET positive == {1, SampleDen \div 2, SampleDen, (3 * SampleDen) \div 2}
    IN positive \cup {0} \cup {0 - a : a \in positive}
AudioBuffers ==
    [sampleRate : SampleRates,
     numberOfChannels : {1, 2},
     channelData : UNION {[1..n -> Samples] : n \in 0..MaxSamples}]
\* The body of a 2xx answer of /api/health: status, current_provider ("" when
\* it is missing) and the providers map, which may lack providers.
HealthData ==
    [status : {"ok", "degraded"},
     current_provider : {"", "groq"},
     providers : {<<>>,
                  [p \in {"local", "groq"} |-> TRUE],
                  [p \in {"local", "groq"} |-> p = "local"],
                  [p \in {"local", "groq"} |-> p = "groq"]}]
\* The audio_info of a result message: absent, or the normalisation metrics.
AudioInfos ==
    {<<>>,
     <<[normalized |-> FALSE, original_rms |-> 2900, processed_rms |-> 2900,
        gain_db |-> 0]>>,
     <<[normalized |-> TRUE, original_rms |-> 600, processed_rms |-> 3000,
        gain_db |-> 14]>>}
\* The messages that are neither of type 'status' nor of type 'log'.
ResultMessages ==
    [skipped : BOOLEAN, language : {"", "en"}, audio_info : AudioInfos,
     text : {"", "hello"}]
\* A result with nothing to show.
PlainResult == [skipped |-> FALSE, language |-> "", audio_info |-> <<>>, text |-> ""]
\* The messages of the WebSocket: status messages with their cancelled and
\* recording fields, log messages, and every other message with its result
\* fields.
Messages(results) ==
    [type : {"status"}, cancelled : BOOLEAN, recording : BOOLEAN,
     result : {PlainResult}]
    \cup [type : {"log"}, cancelled : {FALSE}, recording : {FALSE},
          result : {PlainResult}]
    \cup [type : {"result"}, cancelled : {FALSE}, recording : {FALSE},
          result : results]
\* What /api/history answers.
HistoryLists == {<<>>, <<"hello">>}
\* The providers; the local one needs no credential and is the fallback.
Providers == {"local", "openai", "groq"}
Fallback == "local"
\* How a provider call ends.
CallOutcomes == {"ok", "timeout", "transport_error", "config_error"}
\* The captured clips (duration in tenths of a second, RMS) and the gate's
\* settings (0 disables the volume check).
Clips == [duration : {1, 3, 5}, rms : {0, 50, 100, 200}]
GateSettings == [minDuration : {3}, minRms : {0, 100}]
NoClip == [duration |-> 0, rms |-> 0]
\* The stages of a pipeline run, in their order.
StageOrder == <<"Gate", "Normalize", "Route", "Replace">>
NoResult == [status |-> "none", provider |-> "none", fallback_used |-> FALSE,
             skipped |-> FALSE]
\* What the user types into the two inputs of the replacements panel:
FromInputs == {<<" ">>, <<"a">>, <<"a", " ">>, <<"b">>}
ToInputs == {<<>>, <<"x">>, <<" ", "y">>}

VARIABLES
    modifierPressed,  \* state.modifierPressed
    cmdPressed,       \* state.cmdPressed
    isRecording,      \* state.isRecording
    isProcessing,     \* state.isProcessing
    keybinding,       \* state.settings.keybinding
    settingReqs,      \* setSetting('keybinding', v) calls awaiting the response,
                      \* counted by value
    mediaStream,      \* state.mediaStream is set
    mediaRecorder,    \* state.mediaRecorder: "null", "recording" or "inactive"
    orphaned,         \* a recorder replaced in state.mediaRecorder is still recording
    audioChunks,      \* length of state.audioChunks
    pendingStarts,    \* startRecording calls awaiting initAudio: how many were
                      \* made in the current chord-hold (cur), how many earlier (old)
    stopTimers,       \* stopRecording calls in their 200 ms wait
    decodes,          \* sendAudioForTranscription calls awaiting the decode
    ws,               \* readyState of state.ws: "connecting", "open", "closed"
    wsConnected,      \* state.wsConnected
    reconnectTimer,   \* the pending setTimeout(connectWebSocket, 3000) timers
    staleSockets,     \* WebSocket objects open or connecting that state.ws no
                      \* longer holds
    recLabel,         \* elements.recLabel.textContent
    recHint,          \* elements.recHint.textContent
    lastEvent,        \* history: the handler branch that ran last
    handoffs,         \* history: effective stopRecording calls since the last outcome
    physical,         \* the keyboard's physical state is tracked (SpecKeys)
    held,             \* physical: the keys that are down
    focused,          \* physical: the window has the input focus
    chordEver,        \* physical, history: both configured chord keys were down together
    holdRecorders,    \* physical, history: MediaRecorders created for the chord-hold
                      \* in progress (0 once it is over with none of its starts pending)
    replacementsEnabled, \* state.settings.replacements_enabled: "true", "false"
                      \* or "undefined"
    toggleReqs,       \* toggleReplacementsEnabled calls awaiting the response
    vocabularyWords,  \* vocabularyWords, the client's copy of the vocabulary
    vocabCalls,       \* addVocabularyWord calls awaiting fetch: the word posted
                      \* and, once the server has answered, the response body
    srvVocabulary,    \* the server's vocabulary store
    replacementRules, \* replacementRules, the client's copy of the rules
    ruleCalls,        \* addReplacement calls awaiting fetch: the pair posted and,
                      \* once the server has answered, the response body
    srvReplacements,  \* the server's replacement store
    audioBuffer,      \* the AudioBuffer that decodeAudioData returned
    wavBlob,          \* the bytes of the Blob that audioBufferToWav returned,
                      \* <<>> before the call
    availability,     \* ProviderAvailability: provider -> BOOLEAN
    configured,       \* the provider chosen in the settings
    gateSettings,     \* the gate's thresholds
    clip,             \* the clip of the current pipeline run
    verdict,          \* what the gate returned for it
    stage,            \* where the run is: "idle", "admitted", "normalized",
                      \* "calling", "routed", "done"
    ran,              \* history: the stages that have started in this run
    route,            \* the selection made at dispatch: "none", "configured",
                      \* "fallback"
    calls,            \* the providers called in this run, in order
    result,           \* the TranscriptionResult of this run, NoResult before
    settingsLanguage, \* state.settings.language, "" for auto-detect
    langBadge,        \* elements.langBadge.textContent
    volumeIndicator,  \* the volume indicator: visible, and the metrics it shows
    historyFetches,   \* fetchHistory calls awaiting their response
    historyEntries,   \* historyEntries
    serverHealthy,    \* state.serverHealthy
    providerAvailable,\* state.providerAvailable
    healthChecks,     \* checkHealth calls awaiting their fetch
    statusText,       \* the text of elements.connectionStatus, "" as long as
                      \* the script has not written it
    volumeNormalization, \* state.settings.volume_normalization
    srvNormalization, \* the server's volume_normalization
    normCalls,        \* setSetting('volume_normalization', v) calls in flight
    srvHistory,       \* the server's history; the n-th transcription has text n
    srvAdded,         \* transcriptions added to it so far
    histCalls,        \* fetchHistory and deleteHistoryEntry calls in flight
    logs,             \* consoleLogger.logs; an entry is its type and the number
                      \* of the addLog call that pushed it (its message and time)
    errorCount,       \* consoleLogger.errorCount
    logCount,         \* addLog calls so far
    logAdds,          \* addLog calls of this run
    logged,           \* the entries pushed since the last clear, in order
    pendingCopies     \* copyLogs calls awaiting the clipboard

\* The push-to-talk controller, its settings and its WebSocket.
ctlVars == <<modifierPressed, cmdPressed, isRecording, isProcessing, keybinding,
             settingReqs, mediaStream, mediaRecorder, orphaned, audioChunks,
             pendingStarts, stopTimers, decodes, ws, wsConnected, reconnectTimer,
             staleSockets, recLabel, recHint, lastEvent, handoffs, physical, held, focused,
             chordEver, holdRecorders>>

\* The replacements-enabled toggle.
toggleVars == <<replacementsEnabled, toggleReqs>>

\* The vocabulary panel and the server's store behind it.
vocabVars == <<vocabularyWords, vocabCalls, srvVocabulary>>

\* The replacements panel and the server's store behind it.
ruleVars == <<replacementRules, ruleCalls, srvReplacements>>

\* The conversion of a decoded clip to WAV.
wavVars == <<audioBuffer, wavBlob>>

\* The server's pipeline.
pipelineVars == <<availability, configured, gateSettings, clip, verdict, stage,
                  ran, route, calls, result>>

\* What the result messages show.
observerVars == <<settingsLanguage, langBadge, volumeIndicator, historyFetches,
                  historyEntries>>

\* The panels, the conversion and the pipeline.
sideVars == <<toggleVars, vocabVars, ruleVars, wavVars, pipelineVars>>

\* The health checks and the connection indicator.
healthVars == <<serverHealthy, providerAvailable, healthChecks, statusText>>

\* The volume-normalization toggle and the server's setting behind it.
settingVars == <<volumeNormalization, srvNormalization, normCalls>>

\* The server's history and the history panel's requests.
historyVars == <<srvHistory, srvAdded, histCalls>>

\* The console panel.
logVars == <<logs, errorCount, logCount, logAdds, logged, pendingCopies>>

\* The controls and panels that no other group holds.
miscVars == <<settingVars, historyVars, logVars>>

\* Everything beside the controller.
panelVars == <<sideVars, observerVars, healthVars, miscVars>>

vars == <<ctlVars, panelVars>>

keyVars == <<modifierPressed, cmdPressed>>
captureVars == <<isRecording, isProcessing, mediaRecorder, orphaned, audioChunks>>
asyncVars == <<pendingStarts, stopTimers, decodes>>
wsVars == <<ws, wsConnected, reconnectTimer, staleSockets>>
uiVars == <<recLabel, recHint>>
physVars == <<physical, held, focused, chordEver, holdRecorders>>

\* The history counters tell 0, 1 and "2 or more" apart.
Bump(n) == IF n < 2 THEN n + 1 ELSE n

\* The handler branches the properties tell apart; every other one is "other".
Ev(e) ==
    IF e \in {"keydown_start", "keydown_restart", "keydown_chord", "keyup_stop",
              "keyup_right", "blur", "blur_stop", "init_ok", "init_failed", "not_connected",
              "send_error", "result", "result_skipped", "status_cancelled"}
    THEN e
    ELSE "other"

\* String.prototype.toUpperCase, for the language codes.
toUpperCase(l) ==
    CASE l = "en" -> "EN" [] l = "fr" -> "FR" [] OTHER -> l

\* The language_display of the server's settings: the code in capitals, AUTO
\* for auto-detect.
language_display(l) == IF l = "" THEN "AUTO" ELSE toUpperCase(l)

hideVolumeIndicator(indicator) == [indicator EXCEPT !.visible = FALSE]

showVolumeIndicator(indicator, audioInfo) ==
    IF audioInfo = <<>> THEN indicator
    ELSE IF ~audioInfo[1].normalized THEN hideVolumeIndicator(indicator)
    ELSE [visible |-> TRUE, metrics |-> audioInfo]

ReqCount == settingReqs["ctrl_only"] + settingReqs["shift"]

\* Async operations in flight.
InFlight == pendingStarts.cur + pendingStarts.old + stopTimers + decodes + ReqCount

(* -------------------------- key detection ----------------------------- *)
\* isLeftModifierKey testing the modifier and not its side, as a test of
\* event.ctrlKey / event.shiftKey would.
isLeftModifierKey_AnySide(code) ==
    IF keybinding = "ctrl_only" \/ keybinding = "ctrl"
    THEN code \in {"ControlLeft", "ControlRight"}
    ELSE code \in {"ShiftLeft", "ShiftRight"}

isLeftModifierKey(code) ==
    IF keybinding = "ctrl_only" \/ keybinding = "ctrl"
    THEN code = "ControlLeft"
    ELSE code = "ShiftLeft"

isLeftCommandKey(code) == code = "MetaLeft"

(* --------------------- the keyboard's physical state ------------------ *)
\* The two configured chord keys are down, for key set h and binding kb.
PhysChord(h, kb) ==
    /\ "MetaLeft" \in h
    /\ (IF kb = "ctrl_only" \/ kb = "ctrl" THEN "ControlLeft" ELSE "ShiftLeft") \in h

\* A new chord-hold begins in the step from (held, keybinding) to (h, kb).
NewHold(h, kb) == ~PhysChord(held, keybinding) /\ PhysChord(h, kb)

\* The hold is over and none of its starts is pending, in the state with
\* pending starts ps, key set h and binding kb.
HoldOver(ps, h, kb) == ~PhysChord(h, kb) /\ ps.cur = 0

\* The recorder count of the hold in progress: restarted when a new hold begins
\* (newHold) and when the hold is over (over).
HoldBase(newHold, over) == IF newHold \/ over THEN 0 ELSE holdRecorders

\* Pending starts of an earlier hold no longer count for the new one.
Stale(ps, newHold) ==
    IF newHold THEN [cur |-> 0, old |-> ps.old + ps.cur] ELSE ps

\* The key-down presses a chord key while the other chord key is down.
ChordPress(code) ==
    /\ code \notin held
    /\ isLeftModifierKey(code) \/ isLeftCommandKey(code)
    /\ PhysChord(held \cup {code}, keybinding)

\* The key-down is not the press that completes the chord: its key is outside
\* the chord or, where the keyboard is tracked, it is not a chord press.
StrayKeyDown(code) ==
    \/ ~isLeftModifierKey(code) /\ ~isLeftCommandKey(code)
    \/ physical /\ ~ChordPress(code)

(* --------------------------- audio recording -------------------------- *)
\* startRecording from `state.isRecording = true` on: the part after initAudio.
StartBody(cur, newHold, over) ==
    /\ isRecording' = TRUE
    /\ audioChunks' = 0
    /\ recLabel' = "RECORDING"
    /\ recHint' = "Release keys to transcribe"
    /\ mediaRecorder' = "recording"
    /\ orphaned' = (orphaned \/ mediaRecorder = "recording")
    /\ holdRecorders' = IF physical /\ cur /\ ~over
                        THEN Bump(HoldBase(newHold, over))
                        ELSE HoldBase(newHold, over)

\* startRecording as called by handleKeyDown: it runs to its first await.
startRecording(newHold, over) ==
    IF ~mediaStream
    THEN /\ InFlight < MaxAsync
         /\ pendingStarts' = [Stale(pendingStarts, newHold) EXCEPT !.cur = @ + 1]
         /\ holdRecorders' = HoldBase(newHold, FALSE)
         /\ UNCHANGED <<isRecording, audioChunks, mediaRecorder, orphaned, uiVars>>
    ELSE /\ StartBody(TRUE, newHold, over)
         /\ pendingStarts' = Stale(pendingStarts, newHold)

\* startRecording without its `if (!success) return;`
StartProceeds_NoCheck(success) == TRUE

\* `if (!success) return;`
StartProceeds(success) == success

\* One pending initAudio ends with `outcome` and startRecording resumes.
\* The start was made in the current chord-hold (cur) or in an earlier one.
InitAudioDone(cur, outcome) ==
    /\ IF cur THEN pendingStarts.cur > 0 ELSE pendingStarts.old > 0
    /\ pendingStarts' = IF cur THEN [pendingStarts EXCEPT !.cur = @ - 1]
                               ELSE [pendingStarts EXCEPT !.old = @ - 1]
    /\ mediaStream' = (mediaStream \/ outcome # "denied")
    /\ lastEvent' = Ev(IF outcome = "ok" THEN "init_ok" ELSE "init_failed")
    /\ IF StartProceeds(outcome = "ok")
       THEN StartBody(cur, FALSE, FALSE)
       ELSE /\ recHint' = "Microphone access denied"
            /\ holdRecorders' = HoldBase(FALSE, HoldOver(pendingStarts', held, keybinding))
            /\ UNCHANGED <<isRecording, audioChunks, mediaRecorder, orphaned,
                           recLabel>>
    /\ UNCHANGED <<keyVars, isProcessing, keybinding, settingReqs, stopTimers,
                   decodes, wsVars, handoffs, physical, held, focused, chordEver>>
    /\ UNCHANGED panelVars

\* `if (!state.mediaRecorder || state.mediaRecorder.state === 'inactive') return;`
StopEffective == mediaRecorder = "recording"

\* stopRecording up to its 200 ms wait, when called under condition `called`.
stopRecording(called) ==
    IF called /\ StopEffective
    THEN /\ InFlight < MaxAsync
         /\ isRecording' = FALSE
         /\ isProcessing' = TRUE
         /\ recLabel' = "TRANSCRIBING"
         /\ recHint' = "Processing audio..."
         /\ mediaRecorder' = "inactive"
         /\ stopTimers' = stopTimers + 1
         /\ handoffs' = Bump(handoffs)
    ELSE UNCHANGED <<isRecording, isProcessing, uiVars, mediaRecorder, stopTimers,
                     handoffs>>

\* mediaRecorder.ondataavailable, of the current recorder or of a replaced one.
DataAvailable ==
    /\ mediaRecorder = "recording" \/ orphaned
    /\ audioChunks < MaxChunks
    /\ audioChunks' = audioChunks + 1
    /\ lastEvent' = Ev("data")
    /\ UNCHANGED <<keyVars, isRecording, isProcessing, keybinding, settingReqs,
                   mediaStream, mediaRecorder, orphaned, asyncVars, wsVars, uiVars,
                   handoffs, physVars>>
    /\ UNCHANGED panelVars

resetRecordingState ==
    /\ recLabel' = "OBSERVING"
    /\ recHint' = "Waiting for CLI transcription..."

\* stopRecording after its wait: the blob is built and sendAudioForTranscription
\* runs to its first await.
StopTimerFire ==
    /\ stopTimers > 0
    /\ stopTimers' = stopTimers - 1
    /\ IF ~wsConnected
       THEN /\ resetRecordingState
            /\ lastEvent' = Ev("not_connected")
            /\ handoffs' = 0
            /\ UNCHANGED decodes
       ELSE /\ decodes' = decodes + 1
            /\ lastEvent' = Ev("decoding")
            /\ UNCHANGED <<uiVars, handoffs>>
    /\ UNCHANGED <<keyVars, captureVars, keybinding, settingReqs, mediaStream,
                   pendingStarts, wsVars, physVars>>
    /\ UNCHANGED panelVars

\* sendAudioForTranscription after the decode: state.ws.send, or the catch.
\* send throws on a socket that is still connecting, and drops the data on a
\* closed one.
DecodeDone(ok) ==
    /\ decodes > 0
    /\ decodes' = decodes - 1
    /\ IF ok /\ ws # "connecting"
       THEN /\ lastEvent' = Ev(IF ws = "open" THEN "audio_sent" ELSE "audio_dropped")
            /\ UNCHANGED <<uiVars, handoffs>>
       ELSE /\ resetRecordingState
            /\ lastEvent' = Ev("send_error")
            /\ handoffs' = 0
    /\ UNCHANGED <<keyVars, captureVars, keybinding, settingReqs, mediaStream,
                   pendingStarts, stopTimers, wsVars, physVars>>
    /\ UNCHANGED panelVars

(* ----------------------------- key events ----------------------------- *)
\* handleKeyDown's start condition without its `!state.isProcessing`.
ChordComplete_NoProcessingCheck(mp, cp) == mp /\ cp /\ ~isRecording

\* `state.modifierPressed && state.cmdPressed && !state.isRecording && !state.isProcessing`
ChordComplete(mp, cp) == mp /\ cp /\ ~isRecording /\ ~isProcessing

\* A key-down event, of a press or of the auto-repeat of a key that is down.
handleKeyDown(code) ==
    /\ physical => focused
    /\ LET h == IF physical THEN held \cup {code} ELSE held
           mp == modifierPressed \/ isLeftModifierKey(code)
           cp == cmdPressed \/ isLeftCommandKey(code)
           newHold == NewHold(h, keybinding)
           over == HoldOver(Stale(pendingStarts, newHold), h, keybinding)
       IN /\ held' = h
          /\ modifierPressed' = mp
          /\ cmdPressed' = cp
          /\ chordEver' = (chordEver \/ PhysChord(h, keybinding))
          /\ IF ChordComplete(mp, cp)
             THEN /\ startRecording(newHold, over)
                  /\ lastEvent' = Ev(IF StrayKeyDown(code)
                                     THEN "keydown_restart" ELSE "keydown_start")
             ELSE /\ lastEvent' = Ev(IF mp /\ cp THEN "keydown_chord" ELSE "keydown")
                  /\ pendingStarts' = Stale(pendingStarts, newHold)
                  /\ holdRecorders' = HoldBase(newHold, over)
                  /\ UNCHANGED <<isRecording, audioChunks, mediaRecorder, orphaned,
                                 uiVars>>
    /\ UNCHANGED <<isProcessing, keybinding, settingReqs, mediaStream, stopTimers,
                   decodes, wsVars, handoffs, physical, focused>>
    /\ UNCHANGED panelVars

handleKeyUp(code) ==
    /\ physical => focused /\ code \in held
    /\ LET mp == modifierPressed /\ ~isLeftModifierKey(code)
           cp == cmdPressed /\ ~isLeftCommandKey(code)
           stops == isRecording /\ (~mp \/ ~cp)
       IN /\ held' = held \ {code}
          /\ modifierPressed' = mp
          /\ cmdPressed' = cp
          /\ stopRecording(stops)
          /\ lastEvent' = Ev(IF stops /\ StopEffective THEN "keyup_stop"
                             ELSE IF code \in RightKeys THEN "keyup_right"
                             ELSE "keyup")
          /\ holdRecorders' =
                 HoldBase(FALSE, HoldOver(pendingStarts, held \ {code}, keybinding))
    /\ UNCHANGED <<keybinding, settingReqs, mediaStream, orphaned, audioChunks,
                   pendingStarts, decodes, wsVars, physical, focused, chordEver>>
    /\ UNCHANGED panelVars

\* handleBlur without its `if (state.isRecording) stopRecording()`.
handleBlur_NoStop ==
    /\ physical => focused
    /\ focused' = ~physical
    /\ modifierPressed' = FALSE
    /\ cmdPressed' = FALSE
    /\ lastEvent' = Ev("blur")
    /\ UNCHANGED <<captureVars, uiVars, keybinding, settingReqs, mediaStream,
                   asyncVars, wsVars, handoffs, physical, held, chordEver,
                   holdRecorders>>
    /\ UNCHANGED panelVars

handleBlur ==
    /\ physical => focused
    /\ focused' = ~physical
    /\ modifierPressed' = FALSE
    /\ cmdPressed' = FALSE
    /\ stopRecording(isRecording)
    /\ lastEvent' = Ev(IF isRecording /\ StopEffective THEN "blur_stop" ELSE "blur")
    /\ UNCHANGED <<keybinding, settingReqs, mediaStream, orphaned, audioChunks,
                   pendingStarts, decodes, wsVars, physical, held, chordEver,
                   holdRecorders>>
    /\ UNCHANGED panelVars

\* physical: the window gets the focus back.
Focus ==
    /\ physical /\ ~focused
    /\ focused' = TRUE
    /\ lastEvent' = Ev("focus")
    /\ UNCHANGED <<keyVars, captureVars, keybinding, settingReqs, mediaStream,
                   asyncVars, wsVars, uiVars, handoffs, physical, held, chordEver,
                   holdRecorders>>
    /\ UNCHANGED panelVars

\* physical: a key goes down or up while the window has no focus, and no event
\* is delivered.
PhysChange(code) ==
    /\ physical /\ ~focused
    /\ LET h == IF code \in held THEN held \ {code} ELSE held \cup {code}
           newHold == NewHold(h, keybinding)
       IN /\ held' = h
          /\ chordEver' = (chordEver \/ PhysChord(h, keybinding))
          /\ pendingStarts' = Stale(pendingStarts, newHold)
          /\ holdRecorders' = HoldBase(newHold, HoldOver(pendingStarts, h, keybinding))
    /\ lastEvent' = Ev("phys")
    /\ UNCHANGED <<keyVars, captureVars, keybinding, settingReqs, mediaStream,
                   stopTimers, decodes, wsVars, uiVars, handoffs, physical, focused>>
    /\ UNCHANGED panelVars

(* ------------------------------ settings ------------------------------ *)
\* `if (state.isRecording || state.isProcessing) return;`
ClickAllowed == ~(isRecording \/ isProcessing)

\* The click handler of a keybinding button: setKeybinding runs to its fetch.
KeybindClick(b) ==
    /\ IF ClickAllowed
       THEN /\ InFlight < MaxAsync
            /\ settingReqs' = [settingReqs EXCEPT ![b] = @ + 1]
            /\ lastEvent' = Ev("click")
       ELSE /\ lastEvent' = Ev("click_ignored")
            /\ UNCHANGED settingReqs
    /\ UNCHANGED <<keyVars, captureVars, keybinding, mediaStream, asyncVars, wsVars,
                   uiVars, handoffs, physVars>>
    /\ UNCHANGED panelVars

\* setSetting after its fetch: the response to a PUT of value b arrives.
SettingResponse(b, ok) ==
    /\ settingReqs[b] > 0
    /\ settingReqs' = [settingReqs EXCEPT ![b] = @ - 1]
    /\ LET kb == IF ok THEN b ELSE keybinding
           newHold == NewHold(held, kb)
       IN /\ keybinding' = kb
          /\ chordEver' = (chordEver \/ PhysChord(held, kb))
          /\ pendingStarts' = Stale(pendingStarts, newHold)
          /\ holdRecorders' = HoldBase(newHold, HoldOver(pendingStarts, held, kb))
    /\ langBadge' = IF ok THEN language_display(settingsLanguage) ELSE langBadge
    /\ lastEvent' = Ev(IF ok THEN "setting_ok" ELSE "setting_failed")
    /\ UNCHANGED <<keyVars, captureVars, mediaStream, stopTimers, decodes, wsVars,
                   uiVars, handoffs, physical, held, focused>>
    /\ UNCHANGED <<sideVars, healthVars, miscVars, settingsLanguage, volumeIndicator, historyFetches,
                   historyEntries>>

\* The sequence without its i-th element.
RemoveAt(q, i) == SubSeq(q, 1, i - 1) \o SubSeq(q, i + 1, Len(q))

\* The click handler of the normalization toggle: setSetting runs to its
\* fetch with the negation of the value the client holds.
NormalizeClick ==
    /\ IF ClickAllowed
       THEN /\ Len(normCalls) < MaxRequests
            /\ normCalls' = Append(normCalls,
                   [value |-> ~volumeNormalization, stage |-> "sent", reply |-> FALSE])
       ELSE UNCHANGED normCalls
    /\ UNCHANGED <<ctlVars, sideVars, observerVars, healthVars, historyVars, logVars, volumeNormalization,
                   srvNormalization>>

\* The server handles the PUT of call i: it stores the value and answers
\* with its settings.  Requests are handled in any order.
ServerPutSetting(i) ==
    /\ i \in 1..Len(normCalls)
    /\ normCalls[i].stage = "sent"
    /\ srvNormalization' = normCalls[i].value
    /\ normCalls' = [normCalls EXCEPT ![i].stage = "served", ![i].reply = normCalls[i].value]
    /\ UNCHANGED <<ctlVars, sideVars, observerVars, healthVars, historyVars, logVars, volumeNormalization>>

\* setSetting after its fetch, response.ok: `state.settings[key] = data[key]`.
\* Responses arrive in any order.
SetSettingResponse(i) ==
    /\ i \in 1..Len(normCalls)
    /\ normCalls[i].stage = "served"
    /\ volumeNormalization' = normCalls[i].reply
    /\ normCalls' = RemoveAt(normCalls, i)
    /\ UNCHANGED <<ctlVars, sideVars, observerVars, healthVars, historyVars, logVars, srvNormalization>>

\* setSetting after its fetch, !response.ok or a network error before the
\* server has handled the request: the catch logs and changes nothing.
SetSettingFailed(i) ==
    /\ i \in 1..Len(normCalls)
    /\ normCalls[i].stage = "sent"
    /\ normCalls' = RemoveAt(normCalls, i)
    /\ UNCHANGED <<ctlVars, sideVars, observerVars, healthVars, historyVars, logVars, volumeNormalization,
                   srvNormalization>>

\* toggleReplacementsEnabled up to its fetch: the PUT of the negated value.
toggleReplacementsEnabled ==
    /\ toggleReqs < MaxRequests
    /\ toggleReqs' = toggleReqs + 1
    /\ UNCHANGED <<ctlVars, healthVars, miscVars, observerVars, wavVars, pipelineVars, replacementsEnabled, vocabVars, ruleVars>>

\* toggleReplacementsEnabled after its fetch.  The body of a 2xx response
\* carries the server's value; response.ok is not looked at, and the error
\* body of a non-2xx response has no replacements_enabled.
ToggleResponse(kind, value) ==
    /\ toggleReqs > 0
    /\ toggleReqs' = toggleReqs - 1
    /\ replacementsEnabled' = IF kind = "ok" THEN value
                              ELSE IF kind = "rejected" THEN "undefined"
                              ELSE replacementsEnabled
    /\ UNCHANGED <<ctlVars, healthVars, miscVars, observerVars, wavVars, pipelineVars, vocabVars, ruleVars>>

(* ------------------------------- texts -------------------------------- *)
RECURSIVE TrimStart(_)
TrimStart(t) == IF t # <<>> /\ Head(t) = " " THEN TrimStart(Tail(t)) ELSE t

RECURSIVE TrimEnd(_)
TrimEnd(t) ==
    IF t # <<>> /\ t[Len(t)] = " " THEN TrimEnd(SubSeq(t, 1, Len(t) - 1)) ELSE t

\* String.prototype.trim
Trim(t) == TrimEnd(TrimStart(t))

LowerChar(c) == IF c = "A" THEN "a" ELSE IF c = "B" THEN "b" ELSE c

\* The text in lower case, as the stores compare terms.
Lower(t) == [i \in DOMAIN t |-> LowerChar(t[i])]

(* ----------------------------- vocabulary ----------------------------- *)
\* addVocabularyWord up to its fetch: nothing is sent for a blank word.
addVocabularyWord(word) ==
    /\ IF Trim(word) = <<>>
       THEN UNCHANGED vocabCalls
       ELSE /\ Len(vocabCalls) < MaxRequests
            /\ vocabCalls' = Append(vocabCalls,
                                    [word |-> Trim(word), answered |-> FALSE])
    /\ UNCHANGED <<ctlVars, healthVars, miscVars, observerVars, wavVars, pipelineVars, toggleVars, vocabularyWords, srvVocabulary, ruleVars>>

\* The store holds the term, whatever its letter case.
HasTerm(list, word) == \E i \in DOMAIN list : Lower(list[i]) = Lower(word)

\* The store's add: a term it holds already, in any letter case, is rejected;
\* a new term goes to the end of the list.
StoreAdd(list, word) ==
    IF word = <<>> \/ HasTerm(list, word) THEN list ELSE Append(list, word)

\* The server handles the POST of one call and answers with the outcome and
\* the vocabulary.
ServerAddVocabulary(i) ==
    /\ i \in DOMAIN vocabCalls
    /\ ~vocabCalls[i].answered
    /\ LET word == vocabCalls[i].word
           list == StoreAdd(srvVocabulary, word)
       IN /\ srvVocabulary' = list
          /\ vocabCalls' = [vocabCalls EXCEPT ![i] =
                               [word |-> word, answered |-> TRUE,
                                added |-> list # srvVocabulary,
                                vocabulary |-> list]]
    /\ UNCHANGED <<ctlVars, healthVars, miscVars, observerVars, wavVars, pipelineVars, toggleVars, vocabularyWords, ruleVars>>

\* addVocabularyWord storing data.vocabulary without testing data.added.
VocabularyAfterAdd_NoAddedCheck(data, words) == data.vocabulary

\* `if (data.added) { vocabularyWords = data.vocabulary; ... }`
VocabularyAfterAdd(data, words) == IF data.added THEN data.vocabulary ELSE words

\* addVocabularyWord after its fetch, for the response of one call.
AddVocabularyResponse(i) ==
    /\ i \in DOMAIN vocabCalls
    /\ vocabCalls[i].answered
    /\ vocabularyWords' = VocabularyAfterAdd(vocabCalls[i], vocabularyWords)
    /\ vocabCalls' = RemoveAt(vocabCalls, i)
    /\ UNCHANGED <<ctlVars, healthVars, miscVars, observerVars, wavVars, pipelineVars, toggleVars, srvVocabulary, ruleVars>>

\* addVocabularyWord's catch: the fetch of one call is rejected, before or
\* after the server has handled it.
AddVocabularyFailed(i) ==
    /\ i \in DOMAIN vocabCalls
    /\ vocabCalls' = RemoveAt(vocabCalls, i)
    /\ UNCHANGED <<ctlVars, healthVars, miscVars, observerVars, wavVars, pipelineVars, toggleVars, vocabularyWords, srvVocabulary, ruleVars>>

(* ---------------------------- replacements ---------------------------- *)
\* addReplacement up to its fetch: nothing is sent when either text is blank.
addReplacement(fromText, toText) ==
    /\ IF Trim(fromText) = <<>> \/ Trim(toText) = <<>>
       THEN UNCHANGED ruleCalls
       ELSE /\ Len(ruleCalls) < MaxRequests
            /\ ruleCalls' = Append(ruleCalls,
                                   [from |-> Trim(fromText), to |-> Trim(toText),
                                    answered |-> FALSE])
    /\ UNCHANGED <<ctlVars, healthVars, miscVars, observerVars, wavVars, pipelineVars, toggleVars, vocabVars, replacementRules,
                   srvReplacements>>

\* The store has a rule for the source phrase.
IsMapped(rules, from) == \E i \in DOMAIN rules : rules[i].from = from

\* The store's add: an empty text and a source phrase that is mapped already
\* are rejected; a new rule goes to the end of the list.
StoreAddRule(rules, from, to) ==
    IF from = <<>> \/ to = <<>> \/ IsMapped(rules, from)
    THEN rules
    ELSE Append(rules, [from |-> from, to |-> to])

\* The server handles the POST of one call and answers with the outcome and
\* the rules.
ServerAddReplacement(i) ==
    /\ i \in DOMAIN ruleCalls
    /\ ~ruleCalls[i].answered
    /\ LET call == ruleCalls[i]
           rules == StoreAddRule(srvReplacements, call.from, call.to)
       IN /\ srvReplacements' = rules
          /\ ruleCalls' = [ruleCalls EXCEPT ![i] =
                              [from |-> call.from, to |-> call.to,
                               answered |-> TRUE,
                               added |-> rules # srvReplacements,
                               replacements |-> rules]]
    /\ UNCHANGED <<ctlVars, healthVars, miscVars, observerVars, wavVars, pipelineVars, toggleVars, vocabVars, replacementRules>>

\* addReplacement storing data.replacements without testing data.added.
RulesAfterAdd_NoAddedCheck(data, rules) == data.replacements

\* `if (data.added) { replacementRules = data.replacements; ... }`
RulesAfterAdd(data, rules) == IF data.added THEN data.replacements ELSE rules

\* addReplacement after its fetch, for the response of one call.
AddReplacementResponse(i) ==
    /\ i \in DOMAIN ruleCalls
    /\ ruleCalls[i].answered
    /\ replacementRules' = RulesAfterAdd(ruleCalls[i], replacementRules)
    /\ ruleCalls' = RemoveAt(ruleCalls, i)
    /\ UNCHANGED <<ctlVars, healthVars, miscVars, observerVars, wavVars, pipelineVars, toggleVars, vocabVars, srvReplacements>>

\* addReplacement's catch: the fetch of one call is rejected, before or after
\* the server has handled it.
AddReplacementFailed(i) ==
    /\ i \in DOMAIN ruleCalls
    /\ ruleCalls' = RemoveAt(ruleCalls, i)
    /\ UNCHANGED <<ctlVars, healthVars, miscVars, observerVars, wavVars, pipelineVars, toggleVars, vocabVars, replacementRules,
                   srvReplacements>>

(* ----------------------------- WAV bytes ----------------------------- *)
\* String.prototype.charCodeAt, for the characters of the chunk names.
charCodeAt ==
    [c \in {"R", "I", "F", "W", "A", "V", "E", "f", "m", "t", " ", "d", "a"} |->
        CASE c = "R" -> 82 [] c = "I" -> 73 [] c = "F" -> 70 [] c = "W" -> 87
          [] c = "A" -> 65 [] c = "V" -> 86 [] c = "E" -> 69 [] c = "f" -> 102
          [] c = "m" -> 109 [] c = "t" -> 116 [] c = " " -> 32 [] c = "d" -> 100
          [] c = "a" -> 97]

\* The buffer with `bytes` stored from byte offset `off` (offsets count from 0).
Put(buf, off, bytes) ==
    [i \in DOMAIN buf |->
        IF i > off /\ i <= off + Len(bytes) THEN bytes[i - off] ELSE buf[i]]

\* writeString: one setUint8 per character.
writeString(buf, off, string) ==
    Put(buf, off, [i \in DOMAIN string |-> charCodeAt[string[i]] % 256])

\* DataView.setUint16(off, v, true), for 0 <= v.
setUint16(buf, off, v) == Put(buf, off, <<v % 256, (v \div 256) % 256>>)

\* DataView.setUint32(off, v, true), for 0 <= v < 2^31.
setUint32(buf, off, v) ==
    Put(buf, off, <<v % 256, (v \div 256) % 256, (v \div 65536) % 256,
                    (v \div 16777216) % 256>>)

\* DataView.setInt16(off, v, false): the high byte first.
setInt16_BigEndian(buf, off, v) ==
    LET u == v % 65536 IN Put(buf, off, <<u \div 256, u % 256>>)

\* DataView.setInt16(off, v, true), for an integer v: v modulo 2^16 in two's
\* complement, the low byte first.
setInt16(buf, off, v) ==
    LET u == v % 65536 IN Put(buf, off, <<u % 256, u \div 256>>)

\* The integer part of n / d (d > 0), as the conversion to an integer takes it.
Trunc(n, d) == IF n >= 0 THEN n \div d ELSE 0 - ((0 - n) \div d)

\* The sample is scaled as it is.
Pcm_Unclamped(a) ==
    IF a < 0 THEN Trunc(a * 32768, SampleDen) ELSE Trunc(a * 32767, SampleDen)

\* The 16-bit value of a sample: clamped to [-1, 1], scaled by 0x8000 below
\* zero and by 0x7FFF from zero on, and truncated by setInt16.
Pcm(a) ==
    LET sample == IF a < 0 - SampleDen THEN 0 - SampleDen
                  ELSE IF a > SampleDen THEN SampleDen ELSE a
    IN IF sample < 0 THEN Trunc(sample * 32768, SampleDen)
       ELSE Trunc(sample * 32767, SampleDen)

\* The loop of audioBufferToWav from sample i (counted from 1) on.
RECURSIVE WriteSamples(_, _, _)
WriteSamples(buf, audioData, i) ==
    IF i > Len(audioData) THEN buf
    ELSE WriteSamples(setInt16(buf, 44 + (i - 1) * 2, Pcm(audioData[i])),
                      audioData, i + 1)

\* numChannels taken from the AudioBuffer.
NumChannels_OfBuffer(buffer) == buffer.numberOfChannels

\* `const numChannels = 1;`
NumChannels(buffer) == 1

audioBufferToWav(buffer) ==
    LET numChannels == NumChannels(buffer)
        sampleRate == buffer.sampleRate
        format == 1
        bitDepth == 16
        audioData == buffer.channelData
        dataLength == Len(audioData) * (bitDepth \div 8)
        b0 == [i \in 1..(44 + dataLength) |-> 0]
        b1 == writeString(b0, 0, <<"R", "I", "F", "F">>)
        b2 == setUint32(b1, 4, 36 + dataLength)
        b3 == writeString(b2, 8, <<"W", "A", "V", "E">>)
        b4 == writeString(b3, 12, <<"f", "m", "t", " ">>)
        b5 == setUint32(b4, 16, 16)
        b6 == setUint16(b5, 20, format)
        b7 == setUint16(b6, 22, numChannels)
        b8 == setUint32(b7, 24, sampleRate)
        b9 == setUint32(b8, 28, sampleRate * numChannels * (bitDepth \div 8))
        b10 == setUint16(b9, 32, numChannels * (bitDepth \div 8))
        b11 == setUint16(b10, 34, bitDepth)
        b12 == writeString(b11, 36, <<"d", "a", "t", "a">>)
        b13 == setUint32(b12, 40, dataLength)
    IN WriteSamples(b13, audioData, 1)

\* sendAudioForTranscription converts the decoded clip.
ConvertToWav ==
    /\ wavBlob = <<>>
    /\ wavBlob' = audioBufferToWav(audioBuffer)
    /\ UNCHANGED <<ctlVars, healthVars, miscVars, observerVars, pipelineVars, toggleVars, vocabVars, ruleVars, audioBuffer>>

(* ------------------------------ pipeline ----------------------------- *)
\* The gate with its thresholds taken inclusively.
admit_Inclusive(c, settings) ==
    IF c.duration <= settings.minDuration THEN "too_short"
    ELSE IF c.rms <= settings.minRms /\ settings.minRms > 0 THEN "too_quiet"
    ELSE "Admitted"

\* DurationVolumeGate.admit(clip, minDurationSec, minRms).
admit(c, settings) ==
    IF c.duration < settings.minDuration THEN "too_short"
    ELSE IF c.rms < settings.minRms /\ settings.minRms > 0 THEN "too_quiet"
    ELSE "Admitted"

\* The pipeline hands every clip on, whatever the gate returned.
Proceeds_Always(v) == TRUE

\* The pipeline hands a clip on only when the gate admitted it.
Proceeds(v) == v = "Admitted"

\* A rejected clip ends the run without a result.
Cancelled_NoResult(v) == NoResult

\* The pipeline's result for a rejected clip.
Cancelled(v) ==
    [status |-> IF v = "too_short" THEN "cancelled_short" ELSE "cancelled_quiet",
     provider |-> "none", fallback_used |-> FALSE, skipped |-> TRUE]

\* A pipeline run begins for a captured clip: the gate.
RunGate(c) ==
    /\ stage \in {"idle", "done"}
    /\ clip' = c
    /\ verdict' = admit(c, gateSettings)
    /\ ran' = <<"Gate">>
    /\ route' = "none"
    /\ calls' = <<>>
    /\ IF Proceeds(verdict')
       THEN stage' = "admitted" /\ result' = NoResult
       ELSE stage' = "done" /\ result' = Cancelled(verdict')
    /\ UNCHANGED <<ctlVars, healthVars, miscVars, observerVars, toggleVars, vocabVars, ruleVars, wavVars,
                   availability, configured, gateSettings>>

\* The pipeline normalises the admitted clip.
Normalize ==
    /\ stage = "admitted"
    /\ stage' = "normalized"
    /\ ran' = Append(ran, "Normalize")
    /\ UNCHANGED <<ctlVars, healthVars, miscVars, observerVars, toggleVars, vocabVars, ruleVars, wavVars,
                   availability, configured, gateSettings, clip, verdict, route,
                   calls, result>>

\* The router takes a clip whether normalised or not.
RouteReady_Unnormalized(s) == s \in {"admitted", "normalized"}

\* The router takes the clip when it has been normalised.
RouteReady(s) == s = "normalized"

\* The router always takes the configured provider.
Select_Configured(provider, available) == provider

\* ProviderRouter's selection: the configured provider if it is available,
\* the fallback otherwise.
Select(provider, available) ==
    IF available[provider] THEN provider ELSE Fallback

\* dispatch: the selection and the first provider call.
Dispatch ==
    /\ RouteReady(stage)
    /\ ran' = Append(ran, "Route")
    /\ LET selected == Select(configured, availability)
       IN /\ route' = IF selected = configured THEN "configured" ELSE "fallback"
          /\ calls' = <<selected>>
    /\ stage' = "calling"
    /\ UNCHANGED <<ctlVars, healthVars, miscVars, observerVars, toggleVars, vocabVars, ruleVars, wavVars,
                   availability, configured, gateSettings, clip, verdict, result>>

\* The router retries after every failed call.
RetryAllowed_Always(called) == TRUE

\* The router's retry policy: one attempt against the fallback, unless the
\* fallback has been tried in this run.
RetryAllowed(called) == \A i \in DOMAIN called : called[i] # Fallback

\* The result the router returns after its last call.
Returned(status, called, selection) ==
    [status |-> status, provider |-> called[Len(called)],
     fallback_used |-> selection = "fallback" \/ Len(called) > 1,
     skipped |-> FALSE]

\* The provider call in progress ends.
CallReturns(outcome) ==
    /\ stage = "calling"
    /\ LET provider == calls[Len(calls)]
       IN /\ availability' =
                IF outcome = "config_error" /\ provider # Fallback
                THEN [availability EXCEPT ![provider] = FALSE]
                ELSE availability
          /\ IF outcome = "ok"
             THEN /\ stage' = "routed"
                  /\ UNCHANGED <<calls, result>>
             ELSE IF RetryAllowed(calls)
             THEN /\ calls' = Append(calls, Fallback)
                  /\ UNCHANGED <<stage, result>>
             ELSE /\ stage' = "done"
                  /\ result' = Returned("failed", calls, route)
                  /\ calls' = calls
    /\ UNCHANGED <<ctlVars, healthVars, miscVars, observerVars, toggleVars, vocabVars, ruleVars, wavVars,
                   configured, gateSettings, clip, verdict, ran, route>>

\* The replacements are applied to the provider's text, and the run's result
\* is created.
Replace ==
    /\ stage = "routed"
    /\ stage' = "done"
    /\ ran' = Append(ran, "Replace")
    /\ result' = Returned("ok", calls, route)
    /\ UNCHANGED <<ctlVars, healthVars, miscVars, observerVars, toggleVars, vocabVars, ruleVars, wavVars,
                   availability, configured, gateSettings, clip, verdict, route,
                   calls>>

\* The periodic health check finds a credential gone or back.
RefreshAvailability(provider) ==
    /\ provider # Fallback
    /\ availability' = [availability EXCEPT ![provider] = ~availability[provider]]
    /\ UNCHANGED <<ctlVars, healthVars, miscVars, observerVars, toggleVars, vocabVars, ruleVars, wavVars,
                   configured, gateSettings, clip, verdict, stage, ran, route,
                   calls, result>>

(* ------------------------------ WebSocket ----------------------------- *)
\* The text updateConnectionStatus(connected) writes.
updateConnectionStatus(connected, healthy, available) ==
    IF ~connected THEN "Disconnected"
    ELSE IF ~healthy THEN "Server Error"
    ELSE IF ~available THEN "Provider Unavailable"
    ELSE "Connected"

WsOpen ==
    /\ ws = "connecting"
    /\ ws' = "open"
    /\ wsConnected' = TRUE
    /\ statusText' = updateConnectionStatus(TRUE, serverHealthy, providerAvailable)
    /\ lastEvent' = Ev("ws_open")
    /\ UNCHANGED <<keyVars, captureVars, keybinding, settingReqs, mediaStream,
                   asyncVars, reconnectTimer, staleSockets, uiVars, handoffs,
                   physVars>>
    /\ UNCHANGED <<sideVars, observerVars, miscVars, serverHealthy, providerAvailable,
                   healthChecks>>

\* onclose schedules a reconnect only after a connection that had opened.
Reconnects_AfterOpenOnly(connected) == connected

\* onclose schedules the reconnect, whether or not the socket had opened.
Reconnects(connected) == TRUE

\* onclose; a socket that fails to connect closes without having opened.
WsClose ==
    /\ ws \in {"connecting", "open"}
    /\ ws' = "closed"
    /\ wsConnected' = FALSE
    /\ reconnectTimer' = IF Reconnects(wsConnected) THEN reconnectTimer + 1
                         ELSE reconnectTimer
    /\ statusText' = updateConnectionStatus(FALSE, serverHealthy, providerAvailable)
    /\ lastEvent' = Ev("ws_close")
    /\ UNCHANGED <<keyVars, captureVars, keybinding, settingReqs, mediaStream,
                   asyncVars, staleSockets, uiVars, handoffs, physVars>>
    /\ UNCHANGED <<sideVars, observerVars, miscVars, serverHealthy, providerAvailable,
                   healthChecks>>

\* A timer set with setInterval stays pending after it has fired.
AfterFiring_Interval(timers) == timers

\* A timer set with setTimeout fires once.
AfterFiring(timers) == timers - 1

\* A reconnect timer fires: connectWebSocket stores a new socket in state.ws,
\* whatever has become of the one it held.
connectWebSocket ==
    /\ reconnectTimer > 0
    /\ reconnectTimer' = AfterFiring(reconnectTimer)
    /\ ws' = "connecting"
    /\ staleSockets' = IF ws \in {"connecting", "open"} THEN staleSockets + 1
                       ELSE staleSockets
    /\ lastEvent' = Ev("ws_connect")
    /\ UNCHANGED <<keyVars, captureVars, keybinding, settingReqs, mediaStream,
                   asyncVars, wsConnected, uiVars, handoffs, physVars>>
    /\ UNCHANGED panelVars

(* ----------------------------- health check --------------------------- *)
\* checkHealth up to its fetch; setInterval calls it every 30 s.
checkHealth ==
    /\ healthChecks < MaxRequests
    /\ healthChecks' = healthChecks + 1
    /\ UNCHANGED <<ctlVars, sideVars, observerVars, miscVars, serverHealthy,
                   providerAvailable, statusText>>

\* The display is refreshed only when the server's health changed.
StatusChanged_HealthOnly(wasHealthy, wasAvailable, healthy, available) ==
    wasHealthy # healthy

\* `wasHealthy !== state.serverHealthy || wasProviderAvailable !== ...`
StatusChanged(wasHealthy, wasAvailable, healthy, available) ==
    wasHealthy # healthy \/ wasAvailable # available

\* A provider the map lacks counts as unavailable.
ProviderOk_ListedOnly(data) ==
    LET currentProvider ==
            IF data.current_provider = "" THEN "local" ELSE data.current_provider
    IN currentProvider \in DOMAIN data.providers /\ data.providers[currentProvider]

\* `providers[currentProvider] !== false`, with 'local' for a missing
\* current_provider; a provider the map lacks counts as available.
ProviderOk(data) ==
    LET currentProvider ==
            IF data.current_provider = "" THEN "local" ELSE data.current_provider
    IN IF currentProvider \in DOMAIN data.providers
       THEN data.providers[currentProvider]
       ELSE TRUE

\* checkHealth after its fetch: a 2xx answer with its body, or the catch (a
\* non-2xx answer, a network error, the 5 s timeout).
HealthResponse(kind, data) ==
    /\ healthChecks > 0
    /\ healthChecks' = healthChecks - 1
    /\ IF kind = "ok"
       THEN /\ serverHealthy' = (data.status = "ok")
            /\ providerAvailable' = ProviderOk(data)
            /\ statusText' =
                 IF StatusChanged(serverHealthy, providerAvailable,
                                  serverHealthy', providerAvailable')
                 THEN updateConnectionStatus(wsConnected, serverHealthy',
                                             providerAvailable')
                 ELSE statusText
       ELSE /\ serverHealthy' = FALSE
            /\ providerAvailable' = providerAvailable
            /\ statusText' = updateConnectionStatus(wsConnected, FALSE,
                                                    providerAvailable)
    /\ UNCHANGED <<ctlVars, sideVars, observerVars, miscVars>>

\* The branch of handleStatusUpdate a status message takes.
StatusKind(data) ==
    IF data.cancelled THEN "cancelled"
    ELSE IF data.recording THEN "recording"
    ELSE "stopped"

handleStatusUpdate(kind) ==
    /\ ws = "open"
    /\ IF kind = "cancelled"
       THEN /\ isRecording' = FALSE
            /\ isProcessing' = FALSE
            /\ resetRecordingState
            /\ handoffs' = 0
       ELSE IF kind = "recording"
       THEN /\ isRecording' = TRUE
            /\ recLabel' = "RECORDING"
            /\ recHint' = "CLI is recording..."
            /\ UNCHANGED <<isProcessing, handoffs>>
       ELSE /\ isRecording' = FALSE
            /\ isProcessing' = TRUE
            /\ recLabel' = "TRANSCRIBING"
            /\ recHint' = "Processing audio..."
            /\ UNCHANGED handoffs
    /\ volumeIndicator' = IF kind = "recording"
                          THEN hideVolumeIndicator(volumeIndicator)
                          ELSE volumeIndicator
    /\ lastEvent' = Ev("status_" \o kind)
    /\ UNCHANGED <<keyVars, mediaRecorder, orphaned, audioChunks, keybinding,
                   settingReqs, mediaStream, asyncVars, wsVars, physVars>>
    /\ UNCHANGED <<sideVars, healthVars, miscVars, settingsLanguage, langBadge, historyFetches,
                   historyEntries>>

\* onmessage with a message of type 'log'.
LogMessage ==
    /\ ws = "open"
    /\ lastEvent' = Ev("log")
    /\ UNCHANGED <<keyVars, captureVars, keybinding, settingReqs, mediaStream,
                   asyncVars, wsVars, uiVars, handoffs, physVars>>
    /\ UNCHANGED panelVars

\* onmessage with any other message; fetchHistory runs up to its fetch.
handleTranscriptionResult(res) ==
    /\ ws = "open"
    /\ (~res.skipped /\ res.text # "") => historyFetches < MaxRequests
    /\ isProcessing' = FALSE
    /\ resetRecordingState
    /\ handoffs' = 0
    /\ IF res.skipped
       THEN UNCHANGED <<langBadge, volumeIndicator, historyFetches>>
       ELSE /\ langBadge' =
                 IF res.language # ""
                 THEN IF settingsLanguage # "" THEN toUpperCase(settingsLanguage)
                      ELSE toUpperCase(res.language)
                 ELSE langBadge
            /\ volumeIndicator' = showVolumeIndicator(volumeIndicator, res.audio_info)
            /\ historyFetches' =
                 IF res.text # "" THEN historyFetches + 1 ELSE historyFetches
    /\ lastEvent' = Ev(IF res.skipped THEN "result_skipped" ELSE "result")
    /\ UNCHANGED <<keyVars, isRecording, mediaRecorder, orphaned, audioChunks,
                   keybinding, settingReqs, mediaStream, asyncVars, wsVars,
                   physVars>>
    /\ UNCHANGED <<sideVars, healthVars, miscVars, settingsLanguage, historyEntries>>

\* A log message is not returned on and reaches the result handler.
Handler_LogFallsThrough(type) == IF type = "status" THEN "status" ELSE "result"

\* The handler onmessage picks by data.type.
Handler(type) ==
    IF type = "status" THEN "status"
    ELSE IF type = "log" THEN "log"
    ELSE "result"

\* state.ws.onmessage.
onmessage(data) ==
    \/ Handler(data.type) = "status" /\ handleStatusUpdate(StatusKind(data))
    \/ Handler(data.type) = "log" /\ LogMessage
    \/ Handler(data.type) = "result" /\ handleTranscriptionResult(data.result)

\* fetchHistory after its fetch: response.ok is not looked at, and a body
\* without a history gives the empty list.
HistoryResponse(kind, entries) ==
    /\ historyFetches > 0
    /\ historyFetches' = historyFetches - 1
    /\ historyEntries' =
         CASE kind = "ok" -> entries
           [] kind = "rejected" -> <<>>
           [] OTHER -> historyEntries
    /\ UNCHANGED <<ctlVars, sideVars, healthVars, miscVars, settingsLanguage, langBadge, volumeIndicator>>

(* --------------------------- history panel ---------------------------- *)
\* A list bounded by the capacity: the oldest entries are evicted.
Bounded(h) ==
    IF Len(h) > HistoryCapacity THEN SubSeq(h, Len(h) - HistoryCapacity + 1, Len(h)) ELSE h

\* The pipeline appends the result of a run to the server's history.
ServerAddResult ==
    /\ srvAdded < MaxResults
    /\ srvAdded' = srvAdded + 1
    /\ srvHistory' = Bounded(Append(srvHistory, srvAdded + 1))
    /\ UNCHANGED <<ctlVars, sideVars, observerVars, healthVars, settingVars, logVars, histCalls>>

\* fetchHistory up to its fetch (the panel opens, or a result has arrived).
fetchHistory ==
    /\ Len(histCalls) < MaxRequests
    /\ histCalls' = Append(histCalls,
           [kind |-> "fetch", index |-> 0, clicked |-> 0, stage |-> "sent",
            deleted |-> FALSE, history |-> <<>>])
    /\ UNCHANGED <<ctlVars, sideVars, observerVars, healthVars, settingVars, logVars, srvHistory,
                   srvAdded>>

\* The click on the delete button of the entry displayed at position index
\* (counted from 0): deleteHistoryEntry up to its fetch.  The call remembers
\* the text the clicked entry displayed.
DeleteClick(index) ==
    /\ index < Len(historyEntries)
    /\ Len(histCalls) < MaxRequests
    /\ histCalls' = Append(histCalls,
           [kind |-> "delete", index |-> index, clicked |-> historyEntries[index + 1],
            stage |-> "sent", deleted |-> FALSE, history |-> <<>>])
    /\ UNCHANGED <<ctlVars, sideVars, observerVars, healthVars, settingVars, logVars, srvHistory,
                   srvAdded>>

\* The server answers GET /api/history of call i with its list.
ServerGetHistory(i) ==
    /\ i \in 1..Len(histCalls)
    /\ histCalls[i].kind = "fetch" /\ histCalls[i].stage = "sent"
    /\ histCalls' = [histCalls EXCEPT ![i].stage = "served", ![i].history = srvHistory]
    /\ UNCHANGED <<ctlVars, sideVars, observerVars, healthVars, settingVars, logVars, srvHistory,
                   srvAdded>>

\* The server handles DELETE /api/history/{index} of call i: it removes the
\* entry at that position of its list, if there is one, and answers with
\* the list left.
ServerDeleteHistory(i) ==
    /\ i \in 1..Len(histCalls)
    /\ histCalls[i].kind = "delete" /\ histCalls[i].stage = "sent"
    /\ LET found == histCalls[i].index < Len(srvHistory)
           left == IF found THEN RemoveAt(srvHistory, histCalls[i].index + 1)
                   ELSE srvHistory
       IN /\ srvHistory' = left
          /\ histCalls' = [histCalls EXCEPT ![i].stage = "served",
                                            ![i].deleted = found,
                                            ![i].history = left]
    /\ UNCHANGED <<ctlVars, sideVars, observerVars, healthVars, settingVars, logVars, srvAdded>>

\* fetchHistory and deleteHistoryEntry after their fetch: the list of the
\* response replaces historyEntries (for a delete: `if (data.deleted)`).
HistoryCallResponse(i) ==
    /\ i \in 1..Len(histCalls)
    /\ histCalls[i].stage = "served"
    /\ historyEntries' = IF histCalls[i].kind = "fetch" \/ histCalls[i].deleted
                         THEN histCalls[i].history
                         ELSE historyEntries
    /\ histCalls' = RemoveAt(histCalls, i)
    /\ UNCHANGED <<ctlVars, sideVars, healthVars, settingVars, logVars, srvHistory, srvAdded,
                   settingsLanguage, langBadge, volumeIndicator, historyFetches>>

(* ------------------------------ console ------------------------------- *)
maxLogs == 100

LogTypes == {"info", "warn", "error"}

\* The newest entry is dropped.
Evict_Newest(q) == IF Len(q) > maxLogs THEN SubSeq(q, 1, Len(q) - 1) ELSE q

\* `if (this.logs.length > this.maxLogs) this.logs.shift();`
Evict(q) == IF Len(q) > maxLogs THEN Tail(q) ELSE q

\* What addLog(type, args) does to the logger.
Logged(type) ==
    LET entry == [type |-> type, n |-> logCount + 1]
    IN /\ logs' = Evict(Append(logs, entry))
       /\ errorCount' = IF type = "error" THEN errorCount + 1 ELSE errorCount
       /\ logCount' = logCount + 1
       /\ logAdds' = logAdds + 1
       /\ logged' = Append(logged, entry)

\* consoleLogger.addLog, called by the wrapped console.log, console.warn and
\* console.error and by the window's error listener.
addLog(type) ==
    /\ logAdds < MaxLogged
    /\ Logged(type)
    /\ UNCHANGED <<ctlVars, sideVars, observerVars, healthVars, settingVars, historyVars,
                   pendingCopies>>

\* consoleLogger.clear
clear ==
    /\ logs' = <<>>
    /\ errorCount' = 0
    /\ logged' = <<>>
    /\ UNCHANGED <<ctlVars, sideVars, observerVars, healthVars, settingVars, historyVars,
                   logCount, logAdds, pendingCopies>>

\* consoleLogger.copyLogs up to the clipboard's promise: an empty buffer gets
\* the message 'No logs to copy'.
copyLogs ==
    /\ IF logs = <<>>
       THEN /\ logAdds < MaxLogged
            /\ Logged("info")
            /\ UNCHANGED pendingCopies
       ELSE /\ pendingCopies < MaxRequests
            /\ pendingCopies' = pendingCopies + 1
            /\ UNCHANGED <<logs, errorCount, logCount, logAdds, logged>>
    /\ UNCHANGED <<ctlVars, sideVars, observerVars, healthVars, settingVars, historyVars>>

\* copyLogs after writeText: 'Logs copied to clipboard', or the error of the
\* catch.
CopyDone(ok) ==
    /\ pendingCopies > 0
    /\ logAdds < MaxLogged
    /\ pendingCopies' = pendingCopies - 1
    /\ Logged(IF ok THEN "info" ELSE "error")
    /\ UNCHANGED <<ctlVars, sideVars, observerVars, healthVars, settingVars, historyVars>>

(* --------------------------- specifications --------------------------- *)
\* The state after init(): settings fetched, the WebSocket connecting.
InitState ==
    /\ modifierPressed = FALSE
    /\ cmdPressed = FALSE
    /\ isRecording = FALSE
    /\ isProcessing = FALSE
    /\ keybinding \in Bindings
    /\ settingReqs = [b \in Bindings |-> 0]
    /\ mediaStream = FALSE
    /\ mediaRecorder = "null"
    /\ orphaned = FALSE
    /\ audioChunks = 0
    /\ pendingStarts = [cur |-> 0, old |-> 0]
    /\ stopTimers = 0
    /\ decodes = 0
    /\ ws = "connecting"
    /\ wsConnected = FALSE
    /\ reconnectTimer = 0
    /\ staleSockets = 0
    /\ recLabel = ""
    /\ recHint = ""
    /\ lastEvent = "init"
    /\ handoffs = 0
    /\ held = {}
    /\ focused = TRUE
    /\ chordEver = FALSE
    /\ holdRecorders = 0

\* The panels after init(): fetchSettings has stored the server's values and
\* no request is in flight.
PanelInit ==
    /\ replacementsEnabled = "true"
    /\ toggleReqs = 0
    /\ vocabularyWords = <<>>
    /\ vocabCalls = <<>>
    /\ srvVocabulary = <<>>
    /\ replacementRules = <<>>
    /\ ruleCalls = <<>>
    /\ srvReplacements = <<>>

\* No clip has been decoded.
WavIdle ==
    /\ audioBuffer = [sampleRate |-> 48000, numberOfChannels |-> 1,
                      channelData |-> <<>>]
    /\ wavBlob = <<>>

\* The pipeline before its first clip.
PipelineIdle ==
    /\ clip = NoClip
    /\ verdict = "none"
    /\ stage = "idle"
    /\ ran = <<>>
    /\ route = "none"
    /\ calls = <<>>
    /\ result = NoResult

\* The server as the other specifications see it: every provider available,
\* the local one configured.
ServerIdle ==
    /\ availability = [p \in Providers |-> TRUE]
    /\ configured = Fallback
    /\ gateSettings = [minDuration |-> 3, minRms |-> 0]
    /\ PipelineIdle

\* What the page shows after fetchSettings and fetchHistory.
ObserverInit ==
    /\ langBadge = language_display(settingsLanguage)
    /\ volumeIndicator = [visible |-> FALSE, metrics |-> <<>>]
    /\ historyFetches = 0
    /\ historyEntries = <<>>

\* The health state at page load; the indicator shows the page's markup.
HealthInit ==
    /\ serverHealthy = TRUE
    /\ providerAvailable = TRUE
    /\ healthChecks = 0
    /\ statusText = ""

\* Everything beside the controller at rest, the language on auto-detect.
\* Normalization is on (the default), the client holds the server's setting
\* and no request is in flight.
SettingInit ==
    /\ srvNormalization = TRUE
    /\ volumeNormalization = srvNormalization
    /\ normCalls = <<>>

\* No transcription yet and no request of the history panel in flight.
HistoryInit ==
    /\ srvHistory = <<>>
    /\ srvAdded = 0
    /\ histCalls = <<>>

\* consoleLogger after k messages of type info.
LogStart(k) ==
    /\ logs = [i \in 1..k |-> [type |-> "info", n |-> i]]
    /\ errorCount = 0
    /\ logCount = k
    /\ logAdds = 0
    /\ logged = logs
    /\ pendingCopies = 0

MiscInit == SettingInit /\ HistoryInit /\ LogStart(0)

SideIdle ==
    /\ PanelInit /\ WavIdle /\ ServerIdle /\ HealthInit /\ MiscInit
    /\ settingsLanguage = ""
    /\ ObserverInit

Init == InitState /\ physical = FALSE /\ SideIdle

InitKeys == InitState /\ physical = TRUE /\ SideIdle

\* The page with the language forced or on auto-detect.
InitObserver ==
    /\ InitState /\ physical = FALSE /\ PanelInit /\ WavIdle /\ ServerIdle
    /\ HealthInit /\ MiscInit
    /\ settingsLanguage \in {"", "fr"}
    /\ ObserverInit

\* The server started under any settings and any credentials.
InitPipeline ==
    /\ InitState /\ physical = FALSE /\ PanelInit /\ WavIdle /\ HealthInit /\ MiscInit
    /\ settingsLanguage = "" /\ ObserverInit
    /\ availability \in {a \in [Providers -> BOOLEAN] : a[Fallback]}
    /\ configured \in Providers
    /\ gateSettings \in GateSettings
    /\ PipelineIdle

\* The console empty, or one message short of its capacity.
InitLog ==
    /\ InitState /\ physical = FALSE /\ PanelInit /\ WavIdle /\ ServerIdle /\ HealthInit
    /\ settingsLanguage = "" /\ ObserverInit
    /\ SettingInit /\ HistoryInit
    /\ \E k \in {0, maxLogs - 1} : LogStart(k)

\* decodeAudioData has returned a clip.
InitWav ==
    /\ InitState /\ physical = FALSE /\ PanelInit /\ ServerIdle /\ HealthInit /\ MiscInit
    /\ settingsLanguage = "" /\ ObserverInit
    /\ audioBuffer \in AudioBuffers
    /\ wavBlob = <<>>

Next ==
    \/ \E code \in Keys : handleKeyDown(code)
    \/ \E code \in Keys : handleKeyUp(code)
    \/ handleBlur
    \/ \E cur \in BOOLEAN, outcome \in AudioOutcomes : InitAudioDone(cur, outcome)
    \/ DataAvailable
    \/ StopTimerFire
    \/ \E ok \in BOOLEAN : DecodeDone(ok)
    \/ \E b \in Bindings : KeybindClick(b)
    \/ \E b \in Bindings, ok \in BOOLEAN : SettingResponse(b, ok)
    \/ WsOpen
    \/ WsClose
    \/ connectWebSocket
    \/ \E data \in Messages({PlainResult}) : onmessage(data)

NextKeys ==
    \/ \E code \in Keys : handleKeyDown(code)
    \/ \E code \in Keys : handleKeyUp(code)
    \/ handleBlur
    \/ Focus
    \/ \E code \in Keys : PhysChange(code)
    \/ \E cur \in BOOLEAN, outcome \in AudioOutcomes : InitAudioDone(cur, outcome)
    \/ DataAvailable
    \/ StopTimerFire
    \/ \E b \in Bindings : KeybindClick(b)
    \/ \E b \in Bindings, ok \in BOOLEAN : SettingResponse(b, ok)

NextCodes ==
    \/ \E code \in Codes : handleKeyDown(code)
    \/ \E code \in Codes : handleKeyUp(code)
    \/ handleBlur
    \/ \E cur \in BOOLEAN, outcome \in AudioOutcomes : InitAudioDone(cur, outcome)
    \/ StopTimerFire
    \/ \E b \in Bindings : KeybindClick(b)
    \/ \E b \in Bindings, ok \in BOOLEAN : SettingResponse(b, ok)

NextStore ==
    \/ \E b \in Bindings : KeybindClick(b)
    \/ \E b \in Bindings, ok \in BOOLEAN : SettingResponse(b, ok)
    \/ toggleReplacementsEnabled
    \/ \E kind \in ResponseKinds, value \in JsBooleans : ToggleResponse(kind, value)

\* The settings controls beside the messages that lock them.
NextControls ==
    \/ NormalizeClick
    \/ \E i \in 1..MaxRequests : ServerPutSetting(i)
    \/ \E i \in 1..MaxRequests : SetSettingResponse(i)
    \/ \E i \in 1..MaxRequests : SetSettingFailed(i)
    \/ WsOpen
    \/ \E data \in Messages({PlainResult}) : onmessage(data)
    \/ \E b \in Bindings : KeybindClick(b)
    \/ \E b \in Bindings, ok \in BOOLEAN : SettingResponse(b, ok)
    \/ toggleReplacementsEnabled
    \/ \E kind \in ResponseKinds, value \in JsBooleans : ToggleResponse(kind, value)

\* The history panel and the server's history.
NextHistory ==
    \/ ServerAddResult
    \/ fetchHistory
    \/ \E index \in 0..(HistoryCapacity - 1) : DeleteClick(index)
    \/ \E i \in 1..MaxRequests : ServerGetHistory(i)
    \/ \E i \in 1..MaxRequests : ServerDeleteHistory(i)
    \/ \E i \in 1..MaxRequests : HistoryCallResponse(i)

\* The console panel.
NextLog ==
    \/ \E type \in LogTypes : addLog(type)
    \/ clear
    \/ copyLogs
    \/ \E ok \in BOOLEAN : CopyDone(ok)

NextVocabulary ==
    \/ \E word \in WordInputs : addVocabularyWord(word)
    \/ \E i \in 1..MaxRequests : ServerAddVocabulary(i)
    \/ \E i \in 1..MaxRequests : AddVocabularyResponse(i)
    \/ \E i \in 1..MaxRequests : AddVocabularyFailed(i)

NextReplacements ==
    \/ \E fromText \in FromInputs, toText \in ToInputs : addReplacement(fromText, toText)
    \/ \E i \in 1..MaxRequests : ServerAddReplacement(i)
    \/ \E i \in 1..MaxRequests : AddReplacementResponse(i)
    \/ \E i \in 1..MaxRequests : AddReplacementFailed(i)

NextWav == ConvertToWav

NextConnection ==
    \/ WsOpen
    \/ WsClose
    \/ connectWebSocket
    \/ checkHealth
    \/ \E kind \in ResponseKinds, data \in HealthData : HealthResponse(kind, data)

NextObserver ==
    \/ WsOpen
    \/ WsClose
    \/ connectWebSocket
    \/ \E data \in Messages(ResultMessages) : onmessage(data)
    \/ \E kind \in ResponseKinds, entries \in HistoryLists :
          HistoryResponse(kind, entries)

NextPipeline ==
    \/ \E c \in Clips : RunGate(c)
    \/ Normalize
    \/ Dispatch
    \/ \E outcome \in CallOutcomes : CallReturns(outcome)
    \/ Replace
    \/ \E provider \in Providers : RefreshAvailability(provider)

Spec == Init /\ [][Next]_vars

SpecWav == InitWav /\ [][NextWav]_vars

SpecConnection == Init /\ [][NextConnection]_vars

\* The connection with its scheduling: a pending reconnect timer fires, and
\* the server accepts connections in the end (of the attempts made again and
\* again, one opens).
SpecConnectionLive ==
    /\ SpecConnection
    /\ WF_vars(connectWebSocket)
    /\ SF_vars(WsOpen)

SpecObserver == InitObserver /\ [][NextObserver]_vars

\* The observer with its timers: the health check of every 30 s beside the
\* WebSocket's handlers.
NextObserverLive ==
    \/ NextObserver
    \/ checkHealth
    \/ \E kind \in ResponseKinds, data \in HealthData : HealthResponse(kind, data)

\* The observer with the scheduling of its timers and requests: a pending
\* reconnect timer fires, the server accepts connections in the end, the
\* health check's interval fires and its fetch settles.  Nothing makes a
\* message arrive.
SpecObserverLive ==
    /\ InitObserver /\ [][NextObserverLive]_vars
    /\ WF_vars(connectWebSocket)
    /\ SF_vars(WsOpen)
    /\ WF_vars(checkHealth)
    /\ WF_vars(\E kind \in ResponseKinds, data \in HealthData : HealthResponse(kind, data))

SpecPipeline == InitPipeline /\ [][NextPipeline]_vars

\* The pipeline with its scheduling: no stage of a run waits for ever, and
\* every provider call ends, by its timeout at the latest.
SpecPipelineLive ==
    /\ SpecPipeline
    /\ WF_vars(Normalize)
    /\ WF_vars(Dispatch)
    /\ WF_vars(\E outcome \in CallOutcomes : CallReturns(outcome))
    /\ WF_vars(Replace)

SpecReplacements == Init /\ [][NextReplacements]_vars

SpecControls == Init /\ [][NextControls]_vars

SpecHistory == Init /\ [][NextHistory]_vars

SpecLog == InitLog /\ [][NextLog]_vars

SpecVocabulary == Init /\ [][NextVocabulary]_vars

SpecStore == Init /\ [][NextStore]_vars

SpecCodes == Init /\ [][NextCodes]_vars

SpecKeys == InitKeys /\ [][NextKeys]_vars

(* ------------------------------ properties ---------------------------- *)
\* A key-down called startRecording.
KeyStart == lastEvent \in {"keydown_start", "keydown_restart"}

\* The outcome of a handed-off capture has just become known.
Outcome ==
    lastEvent \in {"result", "result_skipped", "status_cancelled", "not_connected",
                   "send_error"}

\* handleBlur has just run.
Blurred == lastEvent \in {"blur", "blur_stop"}

C5_PressIgnoredWhileProcessing ==
    [][(isProcessing /\ \E code \in Keys : handleKeyDown(code))
          => UNCHANGED <<isRecording, isProcessing, mediaRecorder, orphaned,
                         audioChunks, pendingStarts>>]_vars

\* C5 witness: both chord flags are set by a key-down that met Processing and
\* started nothing.
C5_Witness ==
    /\ lastEvent = "keydown_chord"
    /\ isProcessing /\ ~isRecording
    /\ modifierPressed /\ cmdPressed

C8_KeybindingFrozen ==
    [][(isRecording \/ isProcessing) => keybinding' = keybinding]_vars

\* C9: isRecording and isProcessing are never both true.  The code violates
\* it: a status message, or a start completing after a stop, sets isRecording
\* while isProcessing is set.
C9_OneSession == ~(isRecording /\ isProcessing)

ConfiguredModifier(kb) ==
    IF kb \in {"ctrl_only", "ctrl"} THEN "ControlLeft" ELSE "ShiftLeft"

\* C11 (SpecCodes): a key-down or key-up of a right-side modifier key, or of
\* the left modifier that is not the configured one, changes neither
\* modifierPressed nor cmdPressed.
C11_OtherKeysLeaveFlags ==
    [][\A code \in Codes \ {ConfiguredModifier(keybinding), "MetaLeft"} :
          (handleKeyDown(code) \/ handleKeyUp(code)) => UNCHANGED keyVars]_vars

\* C11 witness: the key-up of a right-side modifier key has left both flags
\* set.
C11_Witness ==
    /\ lastEvent = "keyup_right"
    /\ modifierPressed /\ cmdPressed

\* C12 (SpecStore): a settings mutation that the server rejects, or that fails
\* in transport, leaves the client's value of the setting as it was, in
\* setSetting and in toggleReplacementsEnabled.  The code violates it in the
\* toggle, which stores the missing field of a rejection's body.
C12_RejectedSettingKeepsValue ==
    [][(\/ \E b \in Bindings : SettingResponse(b, FALSE)
        \/ \E kind \in {"rejected", "failed"}, value \in JsBooleans :
               ToggleResponse(kind, value))
          => UNCHANGED <<keybinding, replacementsEnabled>>]_vars

\* No two rules of the list map the same source phrase.
OneRulePerSource(rules) ==
    \A i, j \in DOMAIN rules : rules[i].from = rules[j].from => i = j

\* C13 (SpecReplacements): adding a rule whose from or to text is blank, or
\* whose from text is mapped already, is rejected and changes nothing: no rule
\* is overwritten and replacementRules keeps its contents and order.
C13_RejectedRuleChangesNothing ==
    /\ [](OneRulePerSource(replacementRules) /\ OneRulePerSource(srvReplacements))
    /\ [][\A fromText \in FromInputs, toText \in ToInputs :
             (addReplacement(fromText, toText)
                 /\ (Trim(fromText) = <<>> \/ Trim(toText) = <<>>))
                => UNCHANGED <<replacementRules, srvReplacements>>]_vars
    /\ [][\A i \in DOMAIN ruleCalls :
             (AddReplacementResponse(i) /\ ~ruleCalls[i].added)
                => replacementRules' = replacementRules]_vars
    /\ [][\A i \in DOMAIN ruleCalls :
             (ServerAddReplacement(i) /\ IsMapped(srvReplacements, ruleCalls[i].from))
                => srvReplacements' = srvReplacements]_vars

\* C13 witness: "a" is mapped to "x", the add of ("a", "y") has been answered
\* with a rejection, and both lists still hold the first rule only.
C13_Witness ==
    /\ replacementRules = << [from |-> <<"a">>, to |-> <<"x">>] >>
    /\ srvReplacements = << [from |-> <<"a">>, to |-> <<"x">>] >>
    /\ \E i \in DOMAIN ruleCalls :
          /\ ruleCalls[i].from = <<"a">>
          /\ ruleCalls[i].to = <<"y">>
          /\ ruleCalls[i].answered
          /\ ~ruleCalls[i].added

\* No two entries of the list are the same term in any letter case.
OneEntryPerTerm(list) ==
    \A i, j \in DOMAIN list : Lower(list[i]) = Lower(list[j]) => i = j

\* C14 (SpecVocabulary): adding a term the vocabulary holds already, in any
\* letter case, changes nothing: the vocabulary keeps one entry per term, and
\* the add that the store rejects leaves vocabularyWords as it was, contents
\* and order.
C14_RepeatedAddChangesNothing ==
    /\ [](OneEntryPerTerm(vocabularyWords) /\ OneEntryPerTerm(srvVocabulary))
    /\ [][\A i \in DOMAIN vocabCalls :
             (AddVocabularyResponse(i) /\ ~vocabCalls[i].added)
                => vocabularyWords' = vocabularyWords]_vars
    /\ [][\A i \in DOMAIN vocabCalls :
             (ServerAddVocabulary(i) /\ HasTerm(srvVocabulary, vocabCalls[i].word))
                => srvVocabulary' = srvVocabulary]_vars

\* C14 witness: the term was added as "a", the add of "A" has been answered
\* with a rejection, and both lists hold the one entry.
C14_Witness ==
    /\ vocabularyWords = << <<"a">> >>
    /\ srvVocabulary = << <<"a">> >>
    /\ \E i \in DOMAIN vocabCalls :
          /\ vocabCalls[i].word = <<"A">>
          /\ vocabCalls[i].answered
          /\ ~vocabCalls[i].added

\* The unsigned little-endian number in the n bytes from byte offset off.
RECURSIVE UintAt(_, _, _)
UintAt(bytes, off, n) ==
    IF n = 0 THEN 0 ELSE bytes[off + 1] + 256 * UintAt(bytes, off + 1, n - 1)

\* The signed little-endian 16-bit number at byte offset off.
Int16At(bytes, off) ==
    LET u == UintAt(bytes, off, 2) IN IF u >= 32768 THEN u - 65536 ELSE u

\* The 16-bit samples that follow the 44-byte header.
ReadSamples(bytes) ==
    [i \in 1..((Len(bytes) - 44) \div 2) |-> Int16At(bytes, 44 + 2 * (i - 1))]

\* C15 (SpecWav): for a clip of n samples at rate R, audioBufferToWav returns
\* 44 + 2n bytes that begin, little-endian throughout, with 'RIFF', 36 + 2n,
\* 'WAVE', 'fmt ', 16, format 1, 1 channel, R, byte rate 2R, block align 2,
\* 16 bits per sample, 'data', 2n, whatever the number of input channels.
C15_WavHeader ==
    wavBlob # <<>> =>
        LET n == Len(audioBuffer.channelData)
            R == audioBuffer.sampleRate
        IN /\ Len(wavBlob) = 44 + 2 * n
           /\ SubSeq(wavBlob, 1, 4) = <<82, 73, 70, 70>>
           /\ UintAt(wavBlob, 4, 4) = 36 + 2 * n
           /\ SubSeq(wavBlob, 9, 12) = <<87, 65, 86, 69>>
           /\ SubSeq(wavBlob, 13, 16) = <<102, 109, 116, 32>>
           /\ UintAt(wavBlob, 16, 4) = 16
           /\ UintAt(wavBlob, 20, 2) = 1
           /\ UintAt(wavBlob, 22, 2) = 1
           /\ UintAt(wavBlob, 24, 4) = R
           /\ UintAt(wavBlob, 28, 4) = 2 * R
           /\ UintAt(wavBlob, 32, 2) = 2
           /\ UintAt(wavBlob, 34, 2) = 16
           /\ SubSeq(wavBlob, 37, 40) = <<100, 97, 116, 97>>
           /\ UintAt(wavBlob, 40, 4) = 2 * n
           /\ \A i \in DOMAIN wavBlob : wavBlob[i] \in 0..255

\* C15 witness: a two-channel clip of two samples has been converted to 48
\* bytes.
C15_Witness ==
    /\ audioBuffer.numberOfChannels = 2
    /\ Len(audioBuffer.channelData) = 2
    /\ Len(wavBlob) = 48

\* C16 (SpecWav): the samples after the 44-byte header, read back as
\* little-endian signed 16-bit integers, are the 16-bit values written for
\* the clip's samples: as many, in the same order, with the same values.
C16_SamplesRoundTrip ==
    wavBlob # <<>> =>
        ReadSamples(wavBlob) =
            [i \in DOMAIN audioBuffer.channelData |-> Pcm(audioBuffer.channelData[i])]

\* C16 witness: the clip (-1, 1) has been converted and reads back as
\* (-32768, 32767).
C16_Witness ==
    /\ audioBuffer.channelData = <<0 - SampleDen, SampleDen>>
    /\ wavBlob # <<>>
    /\ ReadSamples(wavBlob) = <<-32768, 32767>>

\* C17 (SpecPipeline): when the configured provider is marked unavailable at
\* dispatch, the clip goes to the fallback (local) provider; a run routed to
\* the fallback calls no other provider, and its result records that the
\* fallback was used.
C17_UnavailableRoutesToFallback ==
    /\ [][(Dispatch /\ ~availability[configured])
            => (route' = "fallback" /\ calls' = <<Fallback>>)]_vars
    /\ [](route = "fallback" =>
            /\ \A i \in DOMAIN calls : calls[i] = Fallback
            /\ result # NoResult => result.fallback_used /\ result.provider = Fallback)

\* C17 witness: with a remote provider configured, a run routed to the
\* fallback has returned its result from the local provider.
C17_Witness ==
    /\ configured # Fallback
    /\ route = "fallback"
    /\ result.status = "ok"
    /\ result.provider = Fallback
    /\ result.fallback_used

\* C18 (SpecPipeline): a run makes at most two provider calls, the second of
\* them against the fallback; when the call after a retry fails, the router
\* returns a failed result and calls no provider again.
C18_AtMostOneFallbackRetry ==
    /\ [](/\ Len(calls) <= 2
          /\ Len(calls) = 2 => calls[2] = Fallback)
    /\ [][(stage = "calling" /\ Len(calls) = 2 /\ stage' = stage) => calls' = calls]_vars
    /\ [][(stage = "calling" /\ Len(calls) = 2 /\ result' # result)
            => (stage' = "done" /\ calls' = calls /\ result'.status \in {"ok", "failed"})]_vars

\* C18 witness: the selected remote provider and then the fallback have both
\* failed, and the run has ended with a failed result after two calls.
C18_Witness ==
    /\ stage = "done"
    /\ Len(calls) = 2
    /\ calls[1] # Fallback
    /\ result.status = "failed"

\* C19 (SpecPipeline): in a run whose clip the gate rejected, no provider is
\* called, and the run's result is a skipped one.
C19_RejectedNeverReachesProvider ==
    verdict \in {"too_short", "too_quiet"} =>
        /\ calls = <<>>
        /\ stage = "done"
        /\ result.skipped

\* C19 witness: both rejections have happened: a clip too quiet, though long
\* enough, has been rejected.
C19_Witness ==
    /\ verdict = "too_quiet"
    /\ clip.duration >= gateSettings.minDuration
    /\ calls = <<>>
    /\ result.status = "cancelled_quiet"

\* C20 (SpecObserver): the handler of a cancelled status or of a skipped
\* result leaves the client Idle and leaves the language badge, the volume
\* indicator and the history as they were.  The code violates the first part:
\* a skipped result clears isProcessing only.
C20_CancelledOrSkippedReturnsIdle ==
    [][(\/ handleStatusUpdate("cancelled")
        \/ \E res \in ResultMessages : res.skipped /\ handleTranscriptionResult(res))
          =>
          /\ ~isRecording' /\ ~isProcessing'
          /\ langBadge' = langBadge
          /\ volumeIndicator' = volumeIndicator
          /\ historyFetches' = historyFetches
          /\ historyEntries' = historyEntries]_vars

\* C21 (SpecPipelineLive): every captured clip yields exactly one
\* TranscriptionResult: a run that has ended has its result, a run under way
\* has none yet, a result once created stays as it is until the next clip's
\* run begins, and every run under way ends.
C21_ExactlyOneResult ==
    /\ [](stage = "done" <=> result # NoResult)
    /\ [][(result # NoResult /\ ~(\E c \in Clips : RunGate(c))) => result' = result]_vars
    /\ (stage \in {"admitted", "normalized", "calling", "routed"} ~> stage = "done")

\* C21 witness: a run whose configured provider and whose fallback both
\* failed has ended with its one result, a failed one.
C21_Witness ==
    /\ stage = "done"
    /\ route = "configured"
    /\ ran = <<"Gate", "Normalize", "Route">>
    /\ result.status = "failed"
    /\ result.fallback_used

\* The stages that have started are the first ones of the order.
RanInOrder == ran = SubSeq(StageOrder, 1, Len(ran))

\* C22 (SpecPipeline): the stages of a run start in the order Gate, Normalize,
\* Route, Replace, each after the one before it has finished, and after a
\* stage has ended the run (a rejection at the gate, a failure of the route)
\* no later stage starts.
C22_StagesInOrder ==
    /\ [](/\ Len(ran) <= Len(StageOrder)
          /\ RanInOrder
          /\ stage = "admitted" => ran = <<"Gate">>
          /\ stage = "normalized" => ran = <<"Gate", "Normalize">>
          /\ stage \in {"calling", "routed"} => ran = <<"Gate", "Normalize", "Route">>
          /\ verdict \in {"too_short", "too_quiet"} => ran = <<"Gate">>
          /\ result.status = "failed" => ran = <<"Gate", "Normalize", "Route">>
          /\ result.status = "ok" => ran = StageOrder)
    /\ [][(ran' # ran /\ ran' # <<"Gate">>)
            => (stage \notin {"idle", "done"} /\ Len(ran') = Len(ran) + 1)]_vars

\* C22 witness: a run has gone through all four stages.
C22_Witness ==
    /\ stage = "done"
    /\ ran = StageOrder
    /\ result.status = "ok"

\* C23 (SpecPipeline): the gate rejects a clip exactly when it is shorter than
\* minDuration (too_short) or minRms > 0 and its RMS is below minRms
\* (too_quiet); with minRms = 0 nothing is too_quiet, and a clip that meets
\* both thresholds is admitted.
C23_GateRejectsExactly ==
    verdict # "none" =>
        LET short == clip.duration < gateSettings.minDuration
            quiet == gateSettings.minRms > 0 /\ clip.rms < gateSettings.minRms
        IN /\ verdict \in {"too_short", "too_quiet"} <=> (short \/ quiet)
           /\ verdict = "too_short" => short
           /\ verdict = "too_quiet" => quiet
           /\ gateSettings.minRms = 0 => verdict # "too_quiet"
           /\ (~short /\ ~quiet) <=> verdict = "Admitted"

\* C23 witness: a clip exactly at both thresholds has been admitted.
C23_Witness ==
    /\ verdict = "Admitted"
    /\ clip.duration = gateSettings.minDuration
    /\ gateSettings.minRms > 0
    /\ clip.rms = gateSettings.minRms

Indicator ==
    CASE ~wsConnected -> "Disconnected"
      [] wsConnected /\ ~serverHealthy -> "Server Error"
      [] wsConnected /\ serverHealthy /\ ~providerAvailable -> "Provider Unavailable"
      [] OTHER -> "Connected"

LiveSockets == staleSockets + (IF ws \in {"connecting", "open"} THEN 1 ELSE 0)

\* C26 (SpecConnection): at most one WebSocket is open or connecting, at most
\* one reconnect timer is pending, and wsConnected is set only while the
\* socket in state.ws is open.
C26_OneSocketOneTimer ==
    /\ LiveSockets <= 1
    /\ reconnectTimer <= 1
    /\ wsConnected => ws = "open"

\* C26 witness: a socket has closed, its reconnect timer has fired, and the
\* new socket is the only one and connecting.
C26_Witness ==
    /\ ws = "connecting"
    /\ statusText = "Disconnected"
    /\ LiveSockets = 1
    /\ reconnectTimer = 0

\* C27 (SpecConnectionLive): every close of the WebSocket, also of one that
\* never opened, schedules a reconnect and is followed by a new connection
\* attempt, and with a server that accepts connections in the end the client
\* is connected again.
C27_ReconnectsForEver ==
    /\ [][ws' = "closed" /\ ws # "closed" => reconnectTimer' = reconnectTimer + 1]_vars
    /\ (ws = "closed" ~> ws = "connecting")
    /\ (~wsConnected ~> wsConnected)

\* C27 witness: a socket has closed, the indicator shows it, and the
\* reconnect is pending.
C27_Witness ==
    /\ ws = "closed"
    /\ reconnectTimer = 1
    /\ statusText = "Disconnected"
    /\ serverHealthy
    /\ healthChecks = 0

C29_StatusAndLogMessages ==
    [][\A data \in Messages(ResultMessages) :
         (data.type \in {"status", "log"} /\ onmessage(data)) =>
            /\ lastEvent' \notin {"result", "result_skipped"}
            /\ CASE data.type = "log" ->
                        isRecording' = isRecording /\ isProcessing' = isProcessing
                 [] data.type = "status" /\ data.cancelled ->
                        ~isRecording' /\ ~isProcessing'
                 [] data.type = "status" /\ ~data.cancelled /\ data.recording ->
                        isRecording'
                 [] OTHER -> ~isRecording' /\ isProcessing']_vars

\* C29 witness: a status message without cancelled and recording has arrived
\* while the CLI was recording, and the client is transcribing.
C29_Witness ==
    /\ ~isRecording
    /\ isProcessing
    /\ recLabel = "TRANSCRIBING"
    /\ ws = "open"

\* C30 (SpecObserver): after a result message has been handled the client is
\* Idle, whatever state it was in.  The code violates it: the handler clears
\* isProcessing and never isRecording.
C30_ResultLeavesIdle ==
    [][\A data \in Messages(ResultMessages) :
         (data.type = "result" /\ onmessage(data)) =>
            (~isRecording' /\ ~isProcessing')]_vars

\* C31 (SpecObserverLive): when from some point on no message is delivered any
\* more, a client whose WebSocket has closed while isRecording or
\* isProcessing is set is Idle again in the end: a lost status or result
\* message does not leave the controls locked for ever.  The code violates
\* it: neither onclose nor onopen touches the two flags.
C31_CloseLeadsToIdle ==
    <>[][~ \E data \in Messages(ResultMessages) : onmessage(data)]_vars
        => ( ((isRecording \/ isProcessing) /\ ws = "closed")
                 ~> (~isRecording /\ ~isProcessing) )

\* C32 (SpecControls): while isRecording or isProcessing is set, no step sends
\* a settings mutation request: neither a setSetting call nor the PUT of the
\* replacements-enabled toggle is added to those in flight.  The code violates
\* it: toggleReplacementsEnabled does not look at the two flags.
C32_NoMutationWhileBusy ==
    [][(isRecording \/ isProcessing)
          => (ReqCount' <= ReqCount /\ toggleReqs' <= toggleReqs)]_vars

\* C33 (SpecControls): once every setSetting request for volume_normalization
\* has completed, the client's state.settings.volume_normalization is the
\* value the server holds.  The code violates it: each response overwrites
\* the client's value in the order of arrival, and nothing orders the
\* requests of one key.
C33_ClientHoldsServerValue ==
    normCalls = <<>> => volumeNormalization = srvNormalization

\* C34 (SpecHistory): the entry the server deletes for a deleteHistoryEntry
\* call is the one whose text was displayed at the clicked position.  The code
\* violates it: the request names the entry by its position in the list the
\* client last fetched.
C34_DeletesClickedEntry ==
    [][\A i \in 1..MaxRequests :
          (ServerDeleteHistory(i) /\ histCalls[i].index < Len(srvHistory))
              => srvHistory[histCalls[i].index + 1] = histCalls[i].clicked]_vars

\* C35 (SpecConnection): a health check that fails (network error, timeout,
\* non-2xx answer) sets serverHealthy to false and leaves providerAvailable,
\* wsConnected, isRecording and isProcessing as they are; a 2xx answer with
\* status 'ok' sets serverHealthy to true, and after a 2xx answer
\* providerAvailable is false exactly when the answer lists the current
\* provider ('local' when none is named) with the value false.
ListedFalse(data) ==
    \E p \in DOMAIN data.providers :
        /\ p = (IF data.current_provider = "" THEN "local" ELSE data.current_provider)
        /\ data.providers[p] = FALSE

C35_HealthCheckOutcome ==
    [][\A kind \in ResponseKinds, data \in HealthData :
          HealthResponse(kind, data) =>
              IF kind = "ok"
              THEN /\ data.status = "ok" => serverHealthy'
                   /\ ~providerAvailable' <=> ListedFalse(data)
              ELSE /\ ~serverHealthy'
                   /\ UNCHANGED <<providerAvailable, wsConnected, isRecording,
                                   isProcessing>>]_vars

\* A failed check has followed an answer that listed the current provider
\* as unavailable, and a later answer with status 'ok' can restore health.
C35_Witness ==
    /\ ~serverHealthy /\ ~providerAvailable /\ wsConnected
    /\ statusText = "Server Error" /\ healthChecks > 0

\* C36 (SpecLog): after any sequence of addLog, copyLogs and clear calls the
\* console buffer holds at most 100 entries, namely the most recently added
\* ones since the last clear in the order of their insertion, and clear leaves
\* the buffer empty with errorCount 0.
Newest(q, k) == IF Len(q) > k THEN SubSeq(q, Len(q) - k + 1, Len(q)) ELSE q

C36_BufferHoldsNewest ==
    /\ [](Len(logs) <= 100 /\ logs = Newest(logged, 100))
    /\ [][clear => (logs' = <<>> /\ errorCount' = 0)]_vars

\* The buffer is full, its oldest entries have been evicted, and it ends
\* with an error.
C36_Witness ==
    /\ Len(logs) = 100 /\ logs[1].n = 3
    /\ logs[100].type = "error" /\ errorCount > 0

\* C37 (SpecWav): every sample of a converted clip is written as a 16-bit
\* value in [-32768, 32767] without wrap-around: -1 gives -32768, 0 gives 0,
\* 1 gives 32767, a sample outside [-1, 1] gives the value of the nearest
\* endpoint, a larger sample never gives a smaller value, and the value has
\* the sign of the sample.  The last part fails: a sample of magnitude below
\* 1/32767 is truncated to 0.
Sign(x) == IF x < 0 THEN -1 ELSE IF x > 0 THEN 1 ELSE 0

PcmRange(c, r) ==
    \A i \in DOMAIN c :
        /\ r[i] \in -32768..32767
        /\ c[i] <= 0 - SampleDen => r[i] = -32768
        /\ c[i] = 0 => r[i] = 0
        /\ c[i] >= SampleDen => r[i] = 32767
        /\ \A j \in DOMAIN c : c[i] <= c[j] => r[i] <= r[j]

====
